---- MODULE Spec2Model ----
(***************************************************************************)
(* Model of the call-session lifecycle of server.js: the activeCalls map,  *)
(* the call-session objects it holds, AIVoiceCallAssistant.initializeCall, *)
(* generateResponse (with its recursive retry and backoff), endCall, the   *)
(* loggers, and the three webhooks /voice/incoming, /voice/process and     *)
(* /voice/status.  Node runs every handler to its next await without       *)
(* interruption, so each action is one such run: the code from a request   *)
(* (or from the completion of an await) to the next await that really      *)
(* suspends (a provider call, a timer, a database insert).                 *)
(***************************************************************************)
EXTENDS Integers, Sequences, FiniteSets, TLC

\* ---------------------------------------------------------------- bounds
MaxTurns == 2       \* /voice/process requests over the run
MaxSessions == 2    \* initializeCall invocations over the run
MaxStatus == 2      \* /voice/status requests over the run
MaxProviderFailures == 4    \* provider calls that fail over the run
MaxRequests == 4    \* webhook requests (and initializeCall calls) over the run
MaxShortRequests == 2    \* the same, in the short runs
MaxMidRequests == 3      \* the same, in the runs of three requests
MaxPrior == 15      \* history entries of a call that is already under way
MaxWindowRequests == 1   \* requests in the runs that start with such a call
ConnectBy == 0      \* requests that may arrive before connectMongoDB settles

\* ------------------------------------------------------ program constants
MaxRetries == 3             \* retryCount < 3
ConfidenceThreshold == 5    \* confidence < 0.5, in tenths
ContextWindow == 10         \* slice(-10)

Apology == "I'm sorry, I'm having trouble processing your request right now. Could you please try again?"

\* ------------------------------------------------------------ input sets
CallSids == {"CA1", "CA2"}
SupportedLanguages == {"en", "es", "fr", "de", "it", "pt"}
Languages == {"en", "xx"}          \* a supported and an unsupported one
Texts == {"", "hi"}                \* "" is an empty or absent SpeechResult
NoConfidence == -1                 \* the Confidence field is absent
Confidences == {NoConfidence, 2, 9}   \* tenths
Utterances == {"ok"}               \* completion.choices[0].message.content
\* a route that calls endCall on every status callback
EveryStatus == {"completed", "failed", "busy", "no-answer", "ringing"}
TerminalStatuses == {"completed", "failed", "busy", "no-answer"}
Statuses == TerminalStatuses \cup {"ringing"}

NoSession == 0      \* activeCalls.get(callSid) === undefined
NoTime == 0         \* endTime not set
Earlier == 0        \* the startTime of a call that began before the run
NoResult == "none"

VARIABLES
    activeCalls,    \* the Map activeCalls: call id -> session object (0: no entry)
    heap,           \* the session objects ever created, by object identity
    turn,           \* the /voice/process requests and their generateResponse
    status,         \* the /voice/status requests and their endCall
    log,            \* the documents inserted into call_logs / conversations
    db,             \* whether db is set (MongoDB connected)
    insertFails,    \* whether the database rejects the inserts
    budget          \* the requests that may still arrive

vars == <<activeCalls, heap, turn, status, log, db, insertFails, budget>>

TurnIds == 1..MaxTurns
StatusIds == 1..MaxStatus

\* A /voice/process request.  callSid, userMessage and retryCount are the
\* arguments of generateResponse, session the callSession it looked up in
\* the current attempt, reply the TwiML the route answers with.  The other
\* fields record what happened: waits the backoff delays so far (seconds),
\* providerCalls and failures the provider calls and the failed attempts,
\* found the session stored under the call id when the request arrived, at
\* the time it arrived, messages the messages of its last completion request.
\* A rejected request keeps only its inputs and its
\* reply; confidence is not passed on to generateResponse.
IdleTurn ==
    [pc |-> "idle", callSid |-> "", userMessage |-> "", confidence |-> NoConfidence,
     retryCount |-> 0, session |-> NoSession, waits |-> <<>>, providerCalls |-> 0,
     failures |-> 0, outcome |-> "none", result |-> NoResult, reply |-> "none",
     found |-> NoSession, at |-> 0, messages |-> <<>>]

\* A /voice/status request: terminal tells whether the route called endCall,
\* session is the callSession endCall looked up.
IdleStatus ==
    [pc |-> "idle", callSid |-> "", terminal |-> FALSE, session |-> NoSession]

Started ==
    /\ activeCalls = [c \in CallSids |-> NoSession]
    /\ heap = <<>>
    /\ turn = [r \in TurnIds |-> IdleTurn]
    /\ status = [e \in StatusIds |-> IdleStatus]
    /\ log = <<>>
    /\ db = FALSE
    /\ insertFails = FALSE

Init == Started /\ budget = MaxRequests

\* the short runs
ShortInit == Started /\ budget = MaxShortRequests

\* the runs of three requests
MidInit == Started /\ budget = MaxMidRequests

\* the history of a call under way: n entries of earlier requests, a user
\* entry and an assistant entry in turn
PriorHistory(n) ==
    [i \in 1..n |-> [role |-> IF i % 2 = 1 THEN "user" ELSE "assistant",
                     content |-> ToString(i), turn |-> 0]]

\* the runs that start while a call is under way
WindowInit ==
    /\ \E n \in 0..MaxPrior :
          heap = <<[callSid |-> "CA1", language |-> "en", startTime |-> Earlier,
                    conversationHistory |-> PriorHistory(n), isActive |-> TRUE,
                    endTime |-> NoTime]>>
    /\ activeCalls = [c \in CallSids |-> IF c = "CA1" THEN 1 ELSE NoSession]
    /\ turn = [r \in TurnIds |-> IdleTurn]
    /\ status = [e \in StatusIds |-> IdleStatus]
    /\ log = <<>>
    /\ db = FALSE
    /\ insertFails = FALSE
    /\ budget = MaxWindowRequests

\* the requests received so far
Requests ==
    Cardinality({s \in 1..Len(heap) : heap[s].startTime # Earlier})
              + Cardinality({r \in TurnIds : turn[r].pc # "idle"})
              + Cardinality({e \in StatusIds : status[e].pc # "idle"})

\* Call ids are opaque and interchangeable: the first one the server ever
\* receives is named CA1.
Seen(c) ==
    \/ \E s \in 1..Len(heap) : heap[s].callSid = c
    \/ \E r \in TurnIds : turn[r].pc # "idle" /\ turn[r].callSid = c
    \/ \E e \in StatusIds : status[e].pc # "idle" /\ status[e].callSid = c

Arrives(c) == c = "CA1" \/ Seen("CA1")

\* ---------------------------------------------------------- the event loop
\* a wait that keeps the thread until the timer is due
BlocksInBackoff(t) == t.pc = "backoff"

\* Whether request t keeps the thread while it waits.  generateResponse waits
\* with await, on the provider call and on the timer promise, so it returns
\* to the event loop and keeps nothing.
Blocks(t) == FALSE

\* The event loop can run a handler or a continuation: no request other
\* than r, the one that continues (0: a new request), keeps the thread.
ThreadFree(r) == \A r2 \in TurnIds \ {r} : ~Blocks(turn[r2])

\* ------------------------------------------------------------- the logger
\* logCallEvent / logConversation: nothing without db; an insert that fails
\* is caught and leaves no document.
Logged(entry) == IF db /\ ~insertFails THEN Append(log, entry) ELSE log

\* connectMongoDB succeeding some time after start-up; the database it
\* reaches accepts the inserts or rejects them
ConnectMongoDB ==
    /\ ThreadFree(0)
    /\ db = FALSE
    /\ Requests <= ConnectBy
    /\ db' = TRUE
    /\ insertFails' \in BOOLEAN
    /\ UNCHANGED <<activeCalls, heap, turn, status, log, budget>>

\* new Date() while a request is handled: requests arrive one after the
\* other, the k-th one at time k
Now == Requests + 1

\* --------------------------------------------------------- initializeCall
\* a session that takes over the history of the one stored under the call id
NewSessionResumed(callSid, language) ==
    [callSid |-> callSid, language |-> language, startTime |-> Now,
     conversationHistory |->
         IF activeCalls[callSid] # NoSession
         THEN heap[activeCalls[callSid]].conversationHistory ELSE <<>>,
     isActive |-> TRUE, endTime |-> NoTime]

NewSession(callSid, language) ==
    [callSid |-> callSid, language |-> language, startTime |-> Now,
     conversationHistory |-> <<>>, isActive |-> TRUE, endTime |-> NoTime]

InitializeCall(callSid, language) ==
    /\ ThreadFree(0)
    /\ Len(heap) < MaxSessions
    /\ Arrives(callSid)
    /\ budget > 0 /\ budget' = budget - 1
    /\ heap' = Append(heap, NewSession(callSid, language))
    /\ activeCalls' = [activeCalls EXCEPT ![callSid] = Len(heap) + 1]
    /\ log' = Logged([coll |-> "call_logs", callSid |-> callSid,
                      eventType |-> "call_initiated", session |-> Len(heap) + 1,
                      messageCount |-> 0, turn |-> 0])
    /\ UNCHANGED <<turn, status, db, insertFails>>

\* POST /voice/incoming: initializeCall(callSid, fromNumber), language 'en'
VoiceIncoming(callSid) == InitializeCall(callSid, "en")

\* ------------------------------------------------------- generateResponse
\* a linear backoff in place of the exponential one
DelayLinear(retryCount) == retryCount + 1

\* Math.pow(2, retryCount) * 1000 ms, in seconds
Delay(retryCount) == 2 ^ retryCount

\* /voice/process after generateResponse: the catch of the route answers
\* with the technical-difficulties message, the normal path says aiResponse
RouteReply(outcome) == IF outcome = "threw" THEN "technical" ELSE "say"

\* generateResponse returning text to the route
Returned(t, text) ==
    [t EXCEPT !.pc = "done", !.outcome = "returned", !.result = text,
              !.reply = RouteReply("returned")]

\* a catch block that rethrows once the retries are used up
ExhaustedRethrows(t) ==
    [t EXCEPT !.pc = "done", !.outcome = "threw", !.reply = RouteReply("threw")]

\* the catch block once the retries are used up
Exhausted(t) == Returned(t, Apology)

\* the catch block of generateResponse, entered with the failed attempt's t
CatchError(t) ==
    IF t.retryCount < MaxRetries
    THEN [t EXCEPT !.pc = "backoff", !.failures = @ + 1,
                   !.waits = Append(@, Delay(t.retryCount))]
    ELSE Exhausted([t EXCEPT !.failures = @ + 1])

\* conversationHistory.push({role, content}) on session object s; turn
\* records the request that pushes
Push(s, role, content, r) ==
    [heap EXCEPT ![s].conversationHistory =
        Append(@, [role |-> role, content |-> content, turn |-> r])]

\* the first entries of the history in place of the last ones
SliceFirst(h, n) == SubSeq(h, 1, IF Len(h) < n THEN Len(h) ELSE n)

\* h.slice(-n): the last n entries of h, all of h when it has fewer
Slice(h, n) == SubSeq(h, IF Len(h) > n THEN Len(h) - n + 1 ELSE 1, Len(h))

\* the messages of the completion request: the system message, which names
\* the language, then role and content of the recent history
BuildMessages(callSession) ==
    LET recentHistory == Slice(callSession.conversationHistory, ContextWindow)
    IN <<[role |-> "system", content |-> callSession.language]>>
         \o [i \in 1..Len(recentHistory) |->
               [role |-> recentHistory[i].role, content |-> recentHistory[i].content]]

\* One attempt of generateResponse for request r, from its entry to the
\* await of the provider call (or, when it throws before that, through the
\* catch block to the timer or to the return).
Attempt(r, t) ==
    LET s == activeCalls[t.callSid] IN
    IF s = NoSession
    THEN /\ turn' = [turn EXCEPT ![r] = CatchError([t EXCEPT !.session = NoSession])]
         /\ heap' = heap
    ELSE /\ heap' = Push(s, "user", t.userMessage, r)
         /\ IF heap[s].language \in SupportedLanguages
            THEN turn' = [turn EXCEPT ![r] =
                            [t EXCEPT !.pc = "provider", !.session = s,
                                      !.providerCalls = @ + 1,
                                      !.messages = BuildMessages(
                                          Push(s, "user", t.userMessage, r)[s])]]
            ELSE turn' = [turn EXCEPT ![r] = CatchError([t EXCEPT !.session = s])]

\* a check of the confidence alone
RejectedOnConfidence(text, confidence) ==
    confidence # NoConfidence /\ confidence < ConfidenceThreshold

\* !speechResult || confidence < 0.5   (an absent Confidence compares false)
Rejected(text, confidence) ==
    \/ text = ""
    \/ (confidence # NoConfidence /\ confidence < ConfidenceThreshold)

\* POST /voice/process
VoiceProcess(r, callSid, text, confidence) ==
    /\ ThreadFree(0)
    /\ turn[r].pc = "idle"
    /\ Arrives(callSid)
    /\ budget > 0 /\ budget' = budget - 1
    /\ IF r = 1 THEN TRUE ELSE turn[r - 1].pc # "idle"
    /\ LET t == [IdleTurn EXCEPT !.callSid = callSid, !.userMessage = text,
                                 !.found = activeCalls[callSid], !.at = Now]
       IN IF Rejected(text, confidence)
          THEN /\ turn' = [turn EXCEPT ![r] =
                             [IdleTurn EXCEPT !.pc = "done", !.userMessage = text,
                                              !.confidence = confidence,
                                              !.reply = "repeat"]]
               /\ heap' = heap
          ELSE Attempt(r, t)
    /\ UNCHANGED <<activeCalls, status, log, db, insertFails>>

\* the session stored under the call id when the provider answers
ResponseSessionLookedUp(t) ==
    IF activeCalls[t.callSid] # NoSession THEN activeCalls[t.callSid] ELSE t.session

\* the callSession the assistant entry is pushed onto: the constant of the
\* attempt that made the provider call
ResponseSession(t) == t.session

\* the provider call resolves with an utterance
ProviderSucceeds(r, aiResponse) ==
    /\ ThreadFree(r)
    /\ turn[r].pc = "provider"
    /\ heap' = Push(ResponseSession(turn[r]), "assistant", aiResponse, r)
    /\ log' = Logged([coll |-> "conversations", callSid |-> turn[r].callSid,
                      eventType |-> "conversation", session |-> turn[r].session,
                      messageCount |-> 0, turn |-> r])
    /\ turn' = [turn EXCEPT ![r] = Returned(turn[r], aiResponse)]
    /\ UNCHANGED <<activeCalls, status, db, insertFails, budget>>

\* provider calls of request r that have failed so far
RECURSIVE SumTo(_, _)
SumTo(f, n) == IF n = 0 THEN 0 ELSE f[n] + SumTo(f, n - 1)

ProviderFailures ==
    SumTo([r \in TurnIds |->
             turn[r].providerCalls
               - (IF turn[r].pc = "provider" \/ turn[r].result \in Utterances
                  THEN 1 ELSE 0)], MaxTurns)

\* the provider call rejects (error, timeout, malformed completion)
ProviderFails(r) ==
    /\ ThreadFree(r)
    /\ turn[r].pc = "provider"
    /\ ProviderFailures < MaxProviderFailures
    /\ turn' = [turn EXCEPT ![r] = CatchError(turn[r])]
    /\ UNCHANGED <<activeCalls, heap, status, log, db, insertFails, budget>>

\* the backoff timer fires: generateResponse(callSid, userMessage, retryCount + 1)
BackoffElapsed(r) ==
    /\ ThreadFree(r)
    /\ turn[r].pc = "backoff"
    /\ Attempt(r, [turn[r] EXCEPT !.retryCount = @ + 1])
    /\ UNCHANGED <<activeCalls, status, log, db, insertFails, budget>>

\* ---------------------------------------------------------------- endCall
\* an endCall that marks the session and leaves out the end time
MarkEndedNoStamp(s) ==
    [heap EXCEPT ![s].isActive = FALSE]

\* The part of endCall before its await: mark, stamp, log.
MarkEnded(s) ==
    [heap EXCEPT ![s].isActive = FALSE, ![s].endTime = Now]

\* an endCall without the delete
KeepEntry(callSid) == activeCalls

\* an endCall that empties the store (activeCalls.clear())
DeleteAll(callSid) == [c \in CallSids |-> NoSession]

\* activeCalls.delete(callSid)
Delete(callSid) == [activeCalls EXCEPT ![callSid] = NoSession]

\* an endCall that dereferences the session it did not find
NoSessionToEndThrows(req) == [req EXCEPT !.pc = "threw"]

\* endCall when the lookup finds nothing, and /voice/status on a status that
\* is not terminal: nothing to do, the route answers 200
NoSessionToEnd(req) == [req EXCEPT !.pc = "done"]

\* POST /voice/status.  Without db the await in endCall does not wait for
\* any I/O, so endCall runs through to the delete; with db it suspends on
\* the insert and the delete is a later step.
VoiceStatus(e, callSid, callStatus) ==
    /\ ThreadFree(0)
    /\ status[e].pc = "idle"
    /\ Arrives(callSid)
    /\ budget > 0 /\ budget' = budget - 1
    /\ IF e = 1 THEN TRUE ELSE status[e - 1].pc # "idle"
    /\ LET s == activeCalls[callSid]
           req == [IdleStatus EXCEPT !.callSid = callSid,
                                     !.terminal = callStatus \in TerminalStatuses]
       IN IF callStatus \in TerminalStatuses /\ s # NoSession
          THEN /\ heap' = MarkEnded(s)
               /\ log' = Logged([coll |-> "call_logs", callSid |-> callSid,
                                 eventType |-> "call_ended", session |-> s,
                                 messageCount |-> Len(heap[s].conversationHistory),
                                 turn |-> 0])
               /\ IF db
                  THEN /\ status' = [status EXCEPT ![e] =
                                       [req EXCEPT !.pc = "logging", !.session = s]]
                       /\ activeCalls' = activeCalls
                  ELSE /\ status' = [status EXCEPT ![e] =
                                       [req EXCEPT !.pc = "done", !.session = s]]
                       /\ activeCalls' = Delete(callSid)
          ELSE /\ status' = [status EXCEPT ![e] = NoSessionToEnd(req)]
               /\ UNCHANGED <<activeCalls, heap, log>>
    /\ UNCHANGED <<turn, db, insertFails>>

\* endCall after its await: activeCalls.delete(callSid)
EndCallFinish(e) ==
    /\ ThreadFree(0)
    /\ status[e].pc = "logging"
    /\ activeCalls' = Delete(status[e].callSid)
    /\ status' = [status EXCEPT ![e].pc = "done"]
    /\ UNCHANGED <<heap, turn, log, db, insertFails, budget>>

\* GET /health (and the dashboard, /api/analytics): activeCalls.size
ActiveCallsSize == Cardinality({c \in CallSids : activeCalls[c] # NoSession})

\* ------------------------------------------------------------------ Next
Next ==
    \/ ConnectMongoDB
    \/ \E c \in CallSids : VoiceIncoming(c)
    \/ \E c \in CallSids, l \in Languages : InitializeCall(c, l)
    \/ \E r \in TurnIds, c \in CallSids, x \in Texts, k \in Confidences :
          VoiceProcess(r, c, x, k)
    \/ \E r \in TurnIds, u \in Utterances : ProviderSucceeds(r, u)
    \/ \E r \in TurnIds : ProviderFails(r)
    \/ \E r \in TurnIds : BackoffElapsed(r)
    \/ \E e \in StatusIds, c \in CallSids, st \in Statuses : VoiceStatus(e, c, st)
    \/ \E e \in StatusIds : EndCallFinish(e)

Spec == Init /\ [][Next]_vars

ShortSpec == ShortInit /\ [][Next]_vars

MidSpec == MidInit /\ [][Next]_vars

WindowSpec == WindowInit /\ [][Next]_vars

\* The runs checked for liveness: the provider answers every call, the
\* timers fire and the inserts complete.
FairSpec ==
    /\ ShortInit /\ [][Next]_vars
    /\ \A r \in TurnIds :
         /\ WF_vars(\E u \in Utterances : ProviderSucceeds(r, u) \/ ProviderFails(r))
         /\ WF_vars(BackoffElapsed(r))
    /\ \A e \in StatusIds : WF_vars(EndCallFinish(e))

\* the same, in the runs of three requests
FairMidSpec ==
    /\ MidInit /\ [][Next]_vars
    /\ \A r \in TurnIds :
         /\ WF_vars(\E u \in Utterances : ProviderSucceeds(r, u) \/ ProviderFails(r))
         /\ WF_vars(BackoffElapsed(r))
    /\ \A e \in StatusIds : WF_vars(EndCallFinish(e))

TypeOK ==
    /\ activeCalls \in [CallSids -> 0..MaxSessions]
    /\ Len(heap) <= MaxSessions
    /\ \A r \in TurnIds : turn[r].retryCount \in 0..MaxRetries
    /\ db \in BOOLEAN
    /\ insertFails \in BOOLEAN
    /\ budget \in 0..MaxRequests

\* ================================================================ claims
\* the entries request r has pushed onto session object s, in order
EntriesOf(s, r) ==
    SelectSeq(heap[s].conversationHistory, LAMBDA m : m.turn = r)

Roles(h) == [i \in 1..Len(h) |-> h[i].role]

History(s) == heap[s].conversationHistory

\* request r was accepted by /voice/process and generateResponse has returned
Finished(r) == turn[r].pc = "done" /\ turn[r].reply # "repeat"

\* C1: an accepted turn on a call id that has a session, whose generation
\* succeeds (at the first attempt or after failed ones), has added exactly
\* two entries to that session: the user text once, then the utterance.
C1_SuccessAddsUserThenAssistant ==
    \A r \in TurnIds :
        (Finished(r) /\ turn[r].found # NoSession /\ turn[r].result \in Utterances)
        => /\ Roles(EntriesOf(turn[r].found, r)) = <<"user", "assistant">>
           /\ EntriesOf(turn[r].found, r)[1].content = turn[r].userMessage
           /\ EntriesOf(turn[r].found, r)[2].content = turn[r].result

\* C2: when the four provider attempts of a turn all fail, the turn returns
\* the apology and the apology is the last entry of the session's history,
\* as an assistant turn.
C2_ApologyIsAppended ==
    \A r \in TurnIds :
        (Finished(r) /\ turn[r].providerCalls = 4 /\ turn[r].result \notin Utterances)
        => /\ turn[r].result = Apology
           /\ History(turn[r].session) # <<>>
           /\ LET h == History(turn[r].session)
              IN h[Len(h)].role = "assistant" /\ h[Len(h)].content = Apology

IsPrefix(a, b) == Len(a) <= Len(b) /\ \A i \in 1..Len(a) : a[i] = b[i]

\* C3: a turn makes at most 4 attempts (and so at most 4 provider calls); the
\* waits are 1s, 2s, 4s in that order, one after each failed attempt but the
\* fourth; an attempt k that succeeds has k-1 waits behind it and its
\* utterance is the result; after the fourth failure no wait follows.
C3_BackoffSchedule ==
    \A r \in TurnIds :
        LET t == turn[r] IN
        /\ t.providerCalls <= 4
        /\ t.retryCount + 1 <= 4
        /\ IsPrefix(t.waits, <<1, 2, 4>>)
        /\ t.pc = "backoff" => (Len(t.waits) = t.failures /\ t.failures = t.retryCount + 1)
        /\ t.pc = "provider" => (Len(t.waits) = t.failures /\ t.failures = t.retryCount)
        /\ (Finished(r) /\ t.result \in Utterances)
             => /\ Len(t.waits) = t.retryCount /\ t.failures = t.retryCount
                /\ \E i \in 1..Len(History(t.session)) :
                      History(t.session)[i] =
                          [role |-> "assistant", content |-> t.result, turn |-> r]
        /\ (Finished(r) /\ t.result \notin Utterances)
             => (t.result = Apology /\ t.failures = 4 /\ t.waits = <<1, 2, 4>>)

\* a turn that succeeded at its fourth attempt, after three provider failures
C3_Witness ==
    \E r \in TurnIds :
        /\ Finished(r) /\ turn[r].result \in Utterances
        /\ turn[r].providerCalls = 4 /\ turn[r].waits = <<1, 2, 4>>

\* C4: every invocation of generateResponse returns an utterance or the
\* apology to its caller, and never throws, whatever the provider does and
\* whatever the session store holds.
C4_AlwaysReturnsAnUtterance ==
    \A r \in TurnIds :
        /\ [](turn[r].outcome # "threw")
        /\ (turn[r].pc \in {"provider", "backoff"})
             ~> (turn[r].pc = "done" /\ turn[r].outcome = "returned"
                 /\ turn[r].result \in Utterances \cup {Apology})

\* a turn that found no session at any attempt and has returned the apology
C4_Witness ==
    \E r \in TurnIds :
        /\ Finished(r) /\ turn[r].result = Apology
        /\ turn[r].providerCalls = 0 /\ turn[r].failures = 4

C6_UnknownCallIsAnError ==
    \A r \in TurnIds :
        (turn[r].pc # "idle" /\ turn[r].reply # "repeat" /\ turn[r].found = NoSession)
        => /\ turn[r].providerCalls = 0
           /\ turn[r].pc = "done" => (turn[r].outcome = "threw" /\ turn[r].reply = "technical")

\* C7: a create for a call id that maps to an active session keeps that
\* session: the same object stays in the store, with its start time and
\* with the history accumulated so far.
C7_CreateKeepsActiveSession ==
    [][\A c \in CallSids :
         (/\ activeCalls[c] # NoSession
          /\ heap[activeCalls[c]].isActive
          /\ activeCalls'[c] # NoSession)
         => /\ activeCalls'[c] = activeCalls[c]
            /\ heap'[activeCalls'[c]].startTime = heap[activeCalls[c]].startTime
            /\ IsPrefix(heap[activeCalls[c]].conversationHistory,
                        heap'[activeCalls'[c]].conversationHistory)]_vars

\* the generateResponse invocations for call id c between start and return
InFlight(c) ==
    {r \in TurnIds : turn[r].callSid = c /\ turn[r].pc \in {"provider", "backoff"}}

\* C8: at most one generateResponse per call id is in flight at any time.
C8_OneTurnInFlightPerCall ==
    \A c \in CallSids : Cardinality(InFlight(c)) <= 1

\* C9: when a session is marked inactive while a turn for its call id is in
\* flight, that turn does nothing more to the session from then on: it
\* pushes no entry onto its history and logs no conversation event for it.
C9_NoActionAfterTermination ==
    [][\A s \in 1..Len(heap), r \in TurnIds :
         (/\ ~heap[s].isActive
          /\ turn[r].pc \in {"provider", "backoff"}
          /\ turn[r].callSid = heap[s].callSid
          /\ turn[r].at < heap[s].endTime)
         => /\ SelectSeq(heap'[s].conversationHistory, LAMBDA m : m.turn = r)
                 = EntriesOf(s, r)
            /\ Len(log') > Len(log)
                 => ~(/\ log'[Len(log')].coll = "conversations"
                      /\ log'[Len(log')].session = s
                      /\ log'[Len(log')].turn = r)]_vars

\* C10: a session created for a call id after an earlier session of the same
\* id was terminated holds only entries of turns submitted after its
\* creation, never one of a turn that started before it.
C10_FreshSessionHoldsOnlyItsTurns ==
    \A s \in 1..Len(heap) :
        (\E s0 \in 1..Len(heap) :
            /\ heap[s0].callSid = heap[s].callSid
            /\ heap[s0].endTime # NoTime
            /\ heap[s0].endTime < heap[s].startTime)
        => \A i \in 1..Len(History(s)) :
              turn[History(s)[i].turn].at > heap[s].startTime

\* request e has started an endCall that found session object s
Terminates(e, s) ==
    status[e].pc = "idle" /\ status'[e].pc # "idle" /\ status'[e].session = s

\* the endCall of request e returns in this step
EndCallReturns(e) ==
    status[e].pc # "done" /\ status'[e].pc = "done" /\ status'[e].session # NoSession

\* C11: endCall on a call id with a session marks it inactive, stamps its end
\* time and logs one call_ended event with the history length of that
\* moment; when it returns the call id has no entry, and the entry it
\* removed, if any, is the session it marked, not one stored since.
C11_EndCallRemovesOnlyItsSession ==
    [][\A e \in StatusIds :
         /\ \A s \in 1..Len(heap) :
              Terminates(e, s)
              => /\ ~heap'[s].isActive /\ heap'[s].endTime # NoTime
                 /\ (db /\ ~insertFails)
                      => log' = Append(log,
                            [coll |-> "call_logs", callSid |-> status'[e].callSid,
                             eventType |-> "call_ended", session |-> s,
                             messageCount |-> Len(heap[s].conversationHistory),
                             turn |-> 0])
         /\ EndCallReturns(e)
              => /\ activeCalls'[status'[e].callSid] = NoSession
                 /\ activeCalls[status'[e].callSid] \in {NoSession, status'[e].session}]_vars

\* C12: endCall for a call id that has no entry (never created, or removed by
\* a completed endCall) returns without failing, changes neither the store
\* nor any session and logs nothing.
C12_EndCallIsIdempotent ==
    [][\A e \in StatusIds :
         (/\ status[e].pc = "idle" /\ status'[e].pc # "idle"
          /\ activeCalls[status'[e].callSid] = NoSession)
         => /\ status'[e].pc = "done" /\ status'[e].session = NoSession
            /\ UNCHANGED <<activeCalls, heap, log>>]_vars

\* a second terminal status for a call id whose endCall has completed, with
\* the logger available
C12_Witness ==
    /\ db /\ ~insertFails
    /\ status[1].pc = "done" /\ status[1].session # NoSession
    /\ status[2].pc = "done" /\ status[2].session = NoSession
    /\ status[2].callSid = status[1].callSid
    /\ activeCalls[status[1].callSid] = NoSession

\* the smaller of two numbers
Min(a, b) == IF a < b THEN a ELSE b

\* C13: the messages of a completion request are the system message followed
\* by the last min(10, n) entries of the session's history, in their order,
\* n being the length of the history with the user entry just pushed.
C13_ContextIsLastTenEntries ==
    [][\A r \in TurnIds :
         turn'[r].providerCalls > turn[r].providerCalls
         => LET h == heap'[turn'[r].session].conversationHistory
                n == Len(h)
                k == Min(10, n)
                m == turn'[r].messages
            IN /\ h[n] = [role |-> "user", content |-> turn'[r].userMessage, turn |-> r]
               /\ Len(m) = k + 1
               /\ m[1].role = "system"
               /\ \A i \in 1..k : /\ m[i + 1].role = h[n - k + i].role
                                  /\ m[i + 1].content = h[n - k + i].content]_vars

\* a completion request sent for a call with 15 earlier entries: the context
\* holds entries 7 to 15 and the new user entry
C13_Witness ==
    \E r \in TurnIds :
        /\ turn[r].pc = "provider" /\ turn[r].retryCount = 0
        /\ Len(heap[turn[r].session].conversationHistory) = 16
        /\ Len(turn[r].messages) = 11
        /\ turn[r].messages[2].content = "7"
        /\ turn[r].messages[11].content = turn[r].userMessage

\* request r was accepted on a call id whose session has an unsupported language
OnUnsupportedLanguage(r) ==
    /\ turn[r].pc # "idle" /\ turn[r].reply # "repeat"
    /\ turn[r].found # NoSession
    /\ heap[turn[r].found].language \notin SupportedLanguages

\* C14: a session created with a language outside the supported set behaves
\* as one created with the fallback language: an accepted turn on it reaches
\* the provider in its first attempt, and when no provider call of the turn
\* has failed the turn returns the provider's utterance, not the apology.
C14_UnsupportedLanguageFallsBack ==
    \A r \in TurnIds :
        OnUnsupportedLanguage(r)
        => /\ turn[r].providerCalls >= 1
           /\ (turn[r].pc = "done" /\ turn[r].failures = 0)
                => turn[r].result \in Utterances

\* session object s is the last one created for its call id
LastCreated(s) ==
    \A s2 \in 1..Len(heap) : heap[s2].callSid = heap[s].callSid => s2 <= s

\* what the operations return and leave behind when no logger is set: no
\* generateResponse throws, and an entry leaves the store only in the endCall
\* that marked its session, so the last session created for a call id is
\* stored until it is marked inactive
OutcomeWithoutLogger ==
    /\ \A r \in TurnIds : turn[r].outcome # "threw"
    /\ \A e \in StatusIds : status[e].pc \in {"idle", "logging", "done"}
    /\ \A s \in 1..Len(heap) :
          (LastCreated(s) /\ heap[s].isActive) => activeCalls[heap[s].callSid] = s

\* C15: logging is best-effort: with a logger, whether its inserts succeed or
\* fail, the operations return and leave behind what they do without one.
C15_LoggerDoesNotChangeOutcome ==
    db => OutcomeWithoutLogger

\* the same outcome in the runs without a logger
C15_HoldsWithoutLogger ==
    ~db => OutcomeWithoutLogger

\* C16: right after initializeCall for a call id, the store maps that id to
\* a session that is active, has no end time and has an empty history.
C16_CreatedSessionIsFresh ==
    [][\A c \in CallSids :
         (Len(heap') = Len(heap) + 1 /\ heap'[Len(heap')].callSid = c)
         => /\ activeCalls'[c] # NoSession
            /\ heap'[activeCalls'[c]].callSid = c
            /\ heap'[activeCalls'[c]].isActive
            /\ heap'[activeCalls'[c]].endTime = NoTime
            /\ heap'[activeCalls'[c]].conversationHistory = <<>>]_vars

\* a call id created again while its earlier session, which has a history,
\* was stored: the store holds the new session
C16_Witness ==
    /\ Len(heap) = 2 /\ heap[2].callSid = heap[1].callSid
    /\ heap[1].conversationHistory # <<>> /\ heap[1].isActive
    /\ activeCalls[heap[2].callSid] = 2
    /\ heap[2].conversationHistory = <<>>

\* the documents of event type ev logged for session object s
Events(ev, s) ==
    Len(SelectSeq(log, LAMBDA d : d.eventType = ev /\ d.session = s))

\* C17: with the logger available, every session created has exactly one
\* call_initiated event, and every session that was terminated has exactly
\* one call_ended event, also when two terminal status events of its call id
\* are handled at the same time, and also when a later create replaced it.
C17_OneEventPerSessionAndKind ==
    (db /\ ~insertFails)
    => \A s \in 1..Len(heap) :
          /\ Events("call_initiated", s) = 1
          /\ heap[s].endTime # NoTime => Events("call_ended", s) = 1
          /\ heap[s].endTime = NoTime => Events("call_ended", s) = 0

\* C18: a terminal status event delivered for a call id that has a session
\* leads to the store having no entry for that id, whatever turns of the
\* call are in flight or in backoff: at once when endCall does not suspend,
\* and otherwise when its pending continuation has run.
C18_TerminalStatusEmptiesTheStore ==
    /\ [][\A e \in StatusIds, c \in CallSids :
            (/\ status[e].pc = "idle" /\ status'[e].pc = "done"
             /\ status'[e].session # NoSession /\ status'[e].callSid = c)
            => activeCalls'[c] = NoSession]_vars
    /\ \A e \in StatusIds, c \in CallSids :
          (status[e].pc = "logging" /\ status[e].callSid = c)
          ~> (status[e].pc = "done" /\ activeCalls[c] = NoSession)

\* a terminal status event delivered while a turn of the call was in flight:
\* the endCall has awaited its insert and the entry is gone, the turn is in
\* backoff
C18_Witness ==
    \E e \in StatusIds, r \in TurnIds :
        /\ db
        /\ status[e].pc = "done" /\ status[e].session # NoSession
        /\ turn[r].pc = "backoff" /\ turn[r].callSid = status[e].callSid
        /\ turn[r].session = status[e].session
        /\ turn[r].at < heap[status[e].session].endTime
        /\ activeCalls[status[e].callSid] = NoSession

\* C19: in every state every session object is inactive exactly when its end
\* time is set, and a session that is inactive stays inactive.
C19_InactiveIffEnded ==
    /\ [](\A s \in 1..Len(heap) : ~heap[s].isActive <=> heap[s].endTime # NoTime)
    /\ [][\A s \in 1..Len(heap) : ~heap[s].isActive => ~heap'[s].isActive]_vars

\* a session that was ended with the logger set: it was marked and stamped
\* in one step and a later step, the rest of endCall, removed its entry
C19_Witness ==
    \E s \in 1..Len(heap), e \in StatusIds :
        /\ ~heap[s].isActive /\ heap[s].endTime # NoTime
        /\ db /\ status[e].pc = "done" /\ status[e].session = s
        /\ activeCalls[heap[s].callSid] = NoSession

\* C20: while a call id has an active session, no step of create or of a turn
\* removes, reorders or resets its history: the history stored under the id
\* before the step is a prefix of the one stored under it after the step.
C20_HistoryIsAppendOnly ==
    [][\A c \in CallSids :
         (/\ status' = status
          /\ activeCalls[c] # NoSession /\ heap[activeCalls[c]].isActive
          /\ activeCalls'[c] # NoSession)
         => IsPrefix(History(activeCalls[c]),
                     heap'[activeCalls'[c]].conversationHistory)]_vars

\* some session object is marked inactive or some store entry removed
SomeSessionEnds ==
    \/ \E s \in 1..Len(heap) : heap[s].isActive /\ ~heap'[s].isActive
    \/ \E c \in CallSids : activeCalls[c] # NoSession /\ activeCalls'[c] = NoSession

\* C21: a status event whose status is not completed, failed, busy or
\* no-answer leaves the store, every session and the log unchanged; a session
\* is marked inactive or removed only in handling a status event with one of
\* these four statuses (or in the rest of the endCall it started).
C21_OnlyTerminalStatusEnds ==
    [][/\ \A e \in StatusIds, c \in CallSids, st \in Statuses :
             (VoiceStatus(e, c, st)
              /\ st \notin {"completed", "failed", "busy", "no-answer"})
             => /\ UNCHANGED <<activeCalls, heap, log>>
                /\ status'[e].pc = "done" /\ status'[e].session = NoSession
       /\ SomeSessionEnds
            => \/ \E e \in StatusIds, c \in CallSids :
                     \E st \in {"completed", "failed", "busy", "no-answer"} :
                        VoiceStatus(e, c, st)
               \/ \E e \in StatusIds : EndCallFinish(e)]_vars

\* a status event that is not terminal, handled as the only request for a
\* call under way, with the logger available: the session is stored and
\* active, its history is as it was, nothing is logged
C21_Witness ==
    /\ db /\ ~insertFails /\ budget = 0
    /\ status[1].pc = "done" /\ ~status[1].terminal /\ status[1].callSid = "CA1"
    /\ activeCalls["CA1"] = 1 /\ heap[1].isActive /\ heap[1].endTime = NoTime
    /\ Len(heap[1].conversationHistory) = MaxPrior
    /\ log = <<>>

\* C22: the count reported as activeCalls counts no session whose isActive is
\* false: every session held in the store is active.
C22_StoreHoldsOnlyActiveSessions ==
    /\ \A c \in CallSids :
          activeCalls[c] # NoSession => heap[activeCalls[c]].isActive
    /\ ActiveCallsSize =
          Cardinality({c \in CallSids :
              activeCalls[c] # NoSession /\ heap[activeCalls[c]].isActive})

\* a generateResponse for call id a is waiting on the provider or in backoff
Waiting(a) ==
    \E r \in TurnIds : turn[r].callSid = a /\ turn[r].pc \in {"provider", "backoff"}

\* C23: while a turn of call id a waits on the provider or in a backoff
\* delay, create, turn and terminate for another call id b can start (as far
\* as requests may still arrive), and those of b that are under way can
\* continue to their end.
C23_WaitDoesNotBlockOtherCalls ==
    \A a \in CallSids, b \in CallSids :
        (a # b /\ Waiting(a))
        => /\ (budget > 0 /\ Len(heap) < MaxSessions) => ENABLED VoiceIncoming(b)
           /\ (budget > 0 /\ \E r \in TurnIds : turn[r].pc = "idle")
                => ENABLED (\E r \in TurnIds, x \in Texts, k \in Confidences :
                               VoiceProcess(r, b, x, k))
           /\ (budget > 0 /\ \E e \in StatusIds : status[e].pc = "idle")
                => ENABLED (\E e \in StatusIds, st \in Statuses : VoiceStatus(e, b, st))
           /\ \A r \in TurnIds :
                 /\ (turn[r].callSid = b /\ turn[r].pc = "provider")
                      => ENABLED (\E u \in Utterances : ProviderSucceeds(r, u))
                 /\ (turn[r].callSid = b /\ turn[r].pc = "backoff")
                      => ENABLED BackoffElapsed(r)
           /\ \A e \in StatusIds :
                 (status[e].callSid = b /\ status[e].pc = "logging")
                 => ENABLED EndCallFinish(e)

\* a turn in its first backoff delay since it arrived, while another call id
\* was created after it and had a turn answered by the provider
C23_Witness ==
    \E ra \in TurnIds, rb \in TurnIds :
        /\ turn[ra].pc = "backoff" /\ turn[ra].retryCount = 0
        /\ turn[ra].providerCalls = 0
        /\ turn[rb].callSid # turn[ra].callSid
        /\ Finished(rb) /\ turn[rb].result \in Utterances
        /\ turn[rb].at > turn[ra].at
        /\ heap[turn[rb].session].startTime > turn[ra].at

\* the entries of h with the given role
WithRole(h, role) == Len(SelectSeq(h, LAMBDA m : m.role = role))

\* C24: in every session's history each assistant entry has a user entry
\* before it, and there are never more assistant entries than user entries.
C24_AssistantFollowsUser ==
    \A s \in 1..Len(heap) :
        LET h == History(s) IN
        /\ \A i \in 1..Len(h) :
              h[i].role = "assistant" => \E j \in 1..(i - 1) : h[j].role = "user"
        /\ WithRole(h, "assistant") <= WithRole(h, "user")

\* a session that was ended while a turn on it was retrying: the user entry
\* of each attempt, then the assistant entry
C24_Witness ==
    \E s \in 1..Len(heap) :
        /\ ~heap[s].isActive
        /\ Roles(History(s)) = <<"user", "user", "assistant">>

\* the call ids of the requests handled or continued in this step
Touched ==
    {turn'[r].callSid : r \in {r2 \in TurnIds : turn'[r2] # turn[r2]}}
    \cup {status'[e].callSid : e \in {e2 \in StatusIds : status'[e2] # status[e2]}}
    \cup {heap'[s].callSid : s \in (Len(heap) + 1)..Len(heap')}

\* C25: a step of create, of a turn (any of its attempts) or of endCall for
\* one call id changes neither the store entry of another call id nor the
\* history or the active flag of another call id's sessions; and no step of
\* a turn changes the store at all.
C25_OtherCallsUntouched ==
    [][/\ \A b \in CallSids \ Touched :
             /\ activeCalls'[b] = activeCalls[b]
             /\ \A s \in 1..Len(heap) : heap[s].callSid = b => heap'[s] = heap[s]
       /\ (\E r \in TurnIds : turn'[r] # turn[r]) => activeCalls' = activeCalls]_vars

\* two call ids created, the first one ended and removed: the second one's
\* session is still stored and active
C25_Witness ==
    \E a \in CallSids, b \in CallSids :
        /\ a # b
        /\ activeCalls[a] = NoSession
        /\ \E s \in 1..Len(heap) : heap[s].callSid = a /\ ~heap[s].isActive
                                   /\ activeCalls[b] # NoSession
                                   /\ heap[activeCalls[b]].startTime < heap[s].endTime
        /\ activeCalls[b] # NoSession /\ heap[activeCalls[b]].isActive
====
